---- MODULE Spec2Model ----
(***************************************************************************)
(* Download / retry orchestration of the YouTube downloader bot            *)
(* (src/bot.py, class YouTubeDownloader).                                  *)
(*                                                                         *)
(* One conversation (chat) runs at most one handler at a time; handlers of *)
(* different chats interleave at the granularity of the blocking calls     *)
(* (fetch, send, remove, archive).  Text messages to the user always get   *)
(* through; send_document, the fetch backend, the audio conversion and the *)
(* write of the failed list may each fail.                                 *)
(***************************************************************************)
EXTENDS Integers, Sequences, FiniteSets, TLC

\* ---------------------------------------------------------------- bounds
MaxLedger == 2      \* longest failed list the model lets a chat build
MaxOps == 2         \* messages that open a conversation, and restarts, per run
MaxSel == 2         \* tokens in a "Selecionar Específicos" reply

\* ------------------------------------------------------- program constants
max_retries == 3

Chats == {"c1", "c2"}

\* URLs a user can send.  "v1" is a plain watch URL, "pv" is a watch URL
\* whose text contains 'playlist' but not 'list=', "pl" is a playlist URL
\* (contains both 'list=' and 'playlist') of the videos "v1" and "v2".
URLs == {"v1", "pv", "pl"}
None == "None"
\* the record of a chat that has no file yet: a value no list of (url, format)
\* pairs equals
NoFile == <<<<"NoFile", "NoFile">>>>

\* 'list=' in url
HasListParam(u) == u \in {"pl"}

\* 'playlist' in url
HasPlaylistWord(u) == u \in {"pl", "pv"}

\* Playlist(url).video_urls
video_urls(u) == IF u = "pl" THEN <<"v1", "v2">> ELSE <<>>

\* str.upper() on the replies the model sends
FormatReplies == {"MP3", "mp4", "OGG"}
Upper(t) == CASE t = "mp3" -> "MP3"
              [] t = "mp4" -> "MP4"
              [] t = "ogg" -> "OGG"
              [] OTHER -> t

Formats == {"MP3", "MP4"}

\* the replies to "Escolha uma opção de retry:"
RetryReplies == {"Cancelar", "Tentar Todos", "Selecionar Específicos", "outro"}

\* tokens of a comma separated selection; int(x.strip()) raises on "x"
Tokens == {"1", "2", "x"}
IsInt(t) == t \in {"1", "2"}
ParseInt(t) == CASE t = "1" -> 1 [] t = "2" -> 2 [] OTHER -> 0
Selections == UNION {[1..n -> Tokens] : n \in 1..MaxSel}

\* stream.download('downloads'): one file per video, named after the video
DownloadPath(u) == <<"downloads", u, "mp4">>

\* convert_to_mp3: same base name, extension .mp3, in 'downloads'
Mp3Path(p) == <<"downloads", p[2], "mp3">>

\* playlist_zip/playlist_{format_choice}_{chat_id}.zip
ZipPath(f, c) == <<"playlist_zip", f, c>>

VARIABLES
  failed_downloads,  \* self.failed_downloads: chat -> list of (url, format)
  disk,              \* failed_lists/{chat}_failed_downloads.json, or NoFile
  user_data,         \* module global user_data: chat -> pending url
  files,             \* files present under downloads/ and playlist_zip/
  pc,                \* where each chat's handler stands
  ctx,               \* which handler is (or was last) running for the chat
  url, fmt,          \* arguments of the running download_video/_playlist
  attempt,           \* loop variable of the retry loop
  file_path,         \* local file_path of download_video
  k,                 \* position in playlist.video_urls
  downloaded_files,  \* local of download_playlist
  failed_videos,     \* local of download_playlist
  pos,               \* position in failed_list / selected_indices
  sel,               \* selected_indices of process_specific_retry
  list0,             \* history: the failed list when the retry loop began
  retried,           \* history: per download of the retry loop, <<entry, outcome>>
  calls,             \* history: fetch invocations for the current item
  fetched,           \* history: a fetch(+extract) of the current item succeeded
  notices,           \* history: failure notices sent by the running download
  ledger0,           \* history: failed list when the running download began
  deliv,             \* history: outcome of send_document in the running download
  extract,           \* history: outcome of convert_to_mp3 in the current attempt
  created,           \* history: files written by the running download
  save_err,          \* history: the last save_failed_list logged an error
  outcome,           \* how the last download call of the chat ended
  message_text,      \* message.text of the reply being handled, as its tokens
  reply,             \* the error text the handler answered with, if any
  nops,              \* conversations started so far
  active             \* the chats that talk to the bot in this run

vars == <<failed_downloads, disk, user_data, files, pc, ctx, url, fmt, attempt,
          file_path, k, downloaded_files, failed_videos, pos, sel, list0, retried, calls,
          fetched, notices, ledger0, deliv, extract, created, save_err, outcome,
          nops, active, message_text, reply>>

\* the reply a handler is working on and its answer
dialogue == <<message_text, reply>>
\* locals of the retry handlers
retryLocals == <<pos, sel, list0, retried>>
\* locals of download_playlist
playlistLocals == <<k, downloaded_files, failed_videos>>

Init ==
  /\ failed_downloads = [c \in Chats |-> <<>>]
  /\ disk = [c \in Chats |-> NoFile]
  /\ user_data = [c \in Chats |-> None]
  /\ files = {}
  /\ pc = [c \in Chats |-> "idle"]
  /\ ctx = [c \in Chats |-> "none"]
  /\ url = [c \in Chats |-> None]
  /\ fmt = [c \in Chats |-> None]
  /\ attempt = [c \in Chats |-> 0]
  /\ file_path = [c \in Chats |-> <<>>]
  /\ k = [c \in Chats |-> 0]
  /\ downloaded_files = [c \in Chats |-> <<>>]
  /\ failed_videos = [c \in Chats |-> <<>>]
  /\ pos = [c \in Chats |-> 0]
  /\ sel = [c \in Chats |-> <<>>]
  /\ list0 = [c \in Chats |-> <<>>]
  /\ retried = [c \in Chats |-> <<>>]
  /\ calls = [c \in Chats |-> 0]
  /\ fetched = [c \in Chats |-> FALSE]
  /\ notices = [c \in Chats |-> 0]
  /\ ledger0 = [c \in Chats |-> <<>>]
  /\ deliv = [c \in Chats |-> "none"]
  /\ extract = [c \in Chats |-> "none"]
  /\ created = [c \in Chats |-> {}]
  /\ save_err = [c \in Chats |-> FALSE]
  /\ outcome = [c \in Chats |-> "none"]
  /\ message_text = [c \in Chats |-> <<>>]
  /\ reply = [c \in Chats |-> "none"]
  /\ nops = 0
  /\ active = {"c1"}

\* ------------------------------------------------------------- helpers

\* a variant that keeps one file for all chats
SaveFailedList_SharedFile(c, ok) ==
  /\ disk' = IF ok THEN [d \in Chats |-> failed_downloads'[c]] ELSE disk
  /\ save_err' = [save_err EXCEPT ![c] = ~ok]

\* save_failed_list(chat_id): json.dump of the chat's list; a failed write is
\* logged and swallowed, and leaves the record as it was.
SaveFailedList(c, ok) ==
  /\ disk' = IF ok THEN [disk EXCEPT ![c] = failed_downloads'[c]] ELSE disk
  /\ save_err' = [save_err EXCEPT ![c] = ~ok]

\* entry of download_video / download_playlist: fresh locals
EnterDownload(c, u, f) ==
  /\ url' = [url EXCEPT ![c] = u]
  /\ fmt' = [fmt EXCEPT ![c] = f]
  /\ attempt' = [attempt EXCEPT ![c] = 0]
  /\ file_path' = [file_path EXCEPT ![c] = <<>>]
  /\ k' = [k EXCEPT ![c] = 0]
  /\ downloaded_files' = [downloaded_files EXCEPT ![c] = <<>>]
  /\ failed_videos' = [failed_videos EXCEPT ![c] = <<>>]
  /\ calls' = [calls EXCEPT ![c] = 0]
  /\ fetched' = [fetched EXCEPT ![c] = FALSE]
  /\ notices' = [notices EXCEPT ![c] = 0]
  /\ ledger0' = [ledger0 EXCEPT ![c] = failed_downloads[c]]
  /\ deliv' = [deliv EXCEPT ![c] = "none"]
  /\ extract' = [extract EXCEPT ![c] = "none"]
  /\ created' = [created EXCEPT ![c] = {}]
  /\ save_err' = [save_err EXCEPT ![c] = FALSE]
  /\ outcome' = [outcome EXCEPT ![c] = "none"]

\* 'list=' in url decides between download_playlist and download_video
DispatchByListParam(c, u) ==
  pc' = [pc EXCEPT ![c] = IF HasListParam(u) THEN "dp_resolve" ELSE "dv_fetch"]

\* --------------------------------------------------------- message handlers

\* handle_url: a text with a YouTube URL stores it and asks for the format
HandleUrl(c, u) ==
  /\ c \in active
  /\ pc[c] = "idle"
  /\ nops < MaxOps
  /\ nops' = nops + 1
  /\ UNCHANGED active
  /\ message_text' = [message_text EXCEPT ![c] = <<>>]
  /\ reply' = [reply EXCEPT ![c] = "none"]
  /\ user_data' = [user_data EXCEPT ![c] = u]
  /\ pc' = [pc EXCEPT ![c] = "await_format"]
  /\ ctx' = [ctx EXCEPT ![c] = "url"]
  /\ UNCHANGED <<failed_downloads, disk, files, url, fmt, attempt, file_path,
                 playlistLocals, retryLocals, calls, fetched, notices, ledger0,
                 deliv, extract, created, save_err, outcome>>

\* process_format_selection
ProcessFormatSelection(c, text) ==
  /\ pc[c] = "await_format"
  /\ message_text' = [message_text EXCEPT ![c] = <<text>>]
  /\ IF user_data[c] = None \/ Upper(text) \notin Formats
     THEN /\ pc' = [pc EXCEPT ![c] = "idle"]
          /\ ctx' = [ctx EXCEPT ![c] = "none"]
          /\ reply' = [reply EXCEPT
                         ![c] = IF user_data[c] = None
                                THEN "URL não encontrada. Reinicie o processo."
                                ELSE "Formato inválido. Escolha MP3 ou MP4."]
          /\ UNCHANGED <<url, fmt, attempt, file_path, playlistLocals, calls,
                         fetched, notices, ledger0, deliv, extract, created,
                         save_err, outcome>>
     ELSE /\ ctx' = [ctx EXCEPT ![c] = "format"]
          /\ EnterDownload(c, user_data[c], Upper(text))
          /\ DispatchByListParam(c, user_data[c])
          /\ UNCHANGED reply
  /\ UNCHANGED <<failed_downloads, disk, user_data, files, retryLocals, nops,
                 active>>

\* ------------------------------------------------------------ download_video

\* attempt == max_retries - 1
LastAttempt(a) == a = max_retries - 1

\* a variant whose failed conversion hands back the path of the mp3 file that
\* was never written
FetchResult_Mp3PathOnFailure(fs, u, f, converted) ==
  IF f = "MP3" /\ converted
  THEN <<(fs \ {DownloadPath(u)}) \cup {Mp3Path(DownloadPath(u))},
         Mp3Path(DownloadPath(u)),
         {DownloadPath(u), Mp3Path(DownloadPath(u))}>>
  ELSE IF f = "MP3"
  THEN <<fs \cup {DownloadPath(u)}, Mp3Path(DownloadPath(u)), {DownloadPath(u)}>>
  ELSE <<fs \cup {DownloadPath(u)}, DownloadPath(u), {DownloadPath(u)}>>

\* stream.download('downloads') followed, for MP3, by convert_to_mp3, which
\* removes the video file when it succeeds and returns the video file when it
\* fails: <<files afterwards, file_path, files written>>
FetchResult(fs, u, f, converted) ==
  IF f = "MP3" /\ converted
  THEN <<(fs \ {DownloadPath(u)}) \cup {Mp3Path(DownloadPath(u))},
         Mp3Path(DownloadPath(u)),
         {DownloadPath(u), Mp3Path(DownloadPath(u))}>>
  ELSE <<fs \cup {DownloadPath(u)}, DownloadPath(u), {DownloadPath(u)}>>

\* a variant that records the failure on every failed attempt
DvExcept_EveryAttempt(c) ==
  \E ok \in BOOLEAN :
    /\ Len(failed_downloads[c]) < MaxLedger
    /\ failed_downloads' =
         [failed_downloads EXCEPT ![c] = Append(@, <<url[c], fmt[c]>>)]
    /\ SaveFailedList(c, ok)
    /\ notices' = [notices EXCEPT ![c] = @ + 1]
    /\ IF LastAttempt(attempt[c])
       THEN /\ outcome' = [outcome EXCEPT ![c] = "failed"]
            /\ pc' = [pc EXCEPT ![c] = "dv_return"]
            /\ UNCHANGED attempt
       ELSE /\ attempt' = [attempt EXCEPT ![c] = @ + 1]
            /\ pc' = [pc EXCEPT ![c] = "dv_fetch"]
            /\ UNCHANGED outcome

\* a variant that writes the record first and appends to the list in memory
\* only when the write went through
DvExcept_AppendsAfterSave(c) ==
  IF LastAttempt(attempt[c])
  THEN \E ok \in BOOLEAN :
         /\ Len(failed_downloads[c]) < MaxLedger
         /\ failed_downloads' =
              [failed_downloads EXCEPT
                 ![c] = IF ok THEN Append(@, <<url[c], fmt[c]>>) ELSE @]
         /\ SaveFailedList(c, ok)
         /\ notices' = [notices EXCEPT ![c] = @ + 1]
         /\ outcome' = [outcome EXCEPT ![c] = "failed"]
         /\ pc' = [pc EXCEPT ![c] = "dv_return"]
         /\ UNCHANGED attempt
  ELSE /\ attempt' = [attempt EXCEPT ![c] = @ + 1]
       /\ pc' = [pc EXCEPT ![c] = "dv_fetch"]
       /\ UNCHANGED <<failed_downloads, disk, save_err, notices, outcome>>

\* except-branch of the retry loop of download_video
DvExcept(c) ==
  IF LastAttempt(attempt[c])
  THEN \E ok \in BOOLEAN :
         /\ Len(failed_downloads[c]) < MaxLedger
         /\ failed_downloads' =
              [failed_downloads EXCEPT ![c] = Append(@, <<url[c], fmt[c]>>)]
         /\ SaveFailedList(c, ok)
         /\ notices' = [notices EXCEPT ![c] = @ + 1]
         /\ outcome' = [outcome EXCEPT ![c] = "failed"]
         /\ pc' = [pc EXCEPT ![c] = "dv_return"]
         /\ UNCHANGED attempt
  ELSE /\ attempt' = [attempt EXCEPT ![c] = @ + 1]
       /\ pc' = [pc EXCEPT ![c] = "dv_fetch"]
       /\ UNCHANGED <<failed_downloads, disk, save_err, notices, outcome>>

\* YouTube(url) ... stream.download(...) [convert_to_mp3]: one attempt
DvFetch(c) ==
  /\ pc[c] = "dv_fetch"
  /\ calls' = [calls EXCEPT ![c] = @ + 1]
  /\ \/ \* the fetch raises
        /\ DvExcept(c)
        /\ extract' = [extract EXCEPT ![c] = "none"]
        /\ UNCHANGED <<files, file_path, fetched, created>>
     \/ \* the fetch succeeds; MP3 converts, or falls back to the video file
        /\ fetched' = [fetched EXCEPT ![c] = TRUE]
        /\ pc' = [pc EXCEPT ![c] = "dv_send"]
        /\ \E converted \in BOOLEAN :
             LET r == FetchResult(files, url[c], fmt[c], converted) IN
               /\ files' = r[1]
               /\ file_path' = [file_path EXCEPT ![c] = r[2]]
               /\ created' = [created EXCEPT ![c] = @ \cup r[3]]
               /\ extract' = [extract EXCEPT
                                ![c] = IF fmt[c] # "MP3" THEN "none"
                                       ELSE IF converted THEN "ok" ELSE "failed"]
        /\ UNCHANGED <<failed_downloads, disk, save_err, notices, outcome, attempt>>
  /\ UNCHANGED <<user_data, ctx, url, fmt, playlistLocals, retryLocals, ledger0,
                 deliv, nops, active, dialogue>>

\* with open(file_path, 'rb') as file: self.bot.send_document(chat_id, file)
DvSend(c) ==
  /\ pc[c] = "dv_send"
  /\ \/ \* open() raises: the file is gone
        /\ file_path[c] \notin files
        /\ DvExcept(c)
        /\ UNCHANGED deliv
     \/ \* send_document raises
        /\ file_path[c] \in files
        /\ deliv' = [deliv EXCEPT ![c] = "failed"]
        /\ DvExcept(c)
     \/ /\ file_path[c] \in files
        /\ deliv' = [deliv EXCEPT ![c] = "ok"]
        /\ pc' = [pc EXCEPT ![c] = "dv_remove"]
        /\ UNCHANGED <<failed_downloads, disk, save_err, notices, outcome, attempt>>
  /\ UNCHANGED <<user_data, files, ctx, url, fmt, file_path, playlistLocals,
                 retryLocals, calls, fetched, ledger0, extract, created, nops,
                 active, dialogue>>

\* os.remove(file_path); return
DvRemove(c) ==
  /\ pc[c] = "dv_remove"
  /\ IF file_path[c] \in files
     THEN /\ files' = files \ {file_path[c]}
          /\ outcome' = [outcome EXCEPT ![c] = "delivered"]
          /\ pc' = [pc EXCEPT ![c] = "dv_return"]
          /\ UNCHANGED <<failed_downloads, disk, save_err, notices, attempt>>
     ELSE /\ DvExcept(c)
          /\ UNCHANGED files
  /\ UNCHANGED <<user_data, ctx, url, fmt, file_path, playlistLocals, retryLocals,
                 calls, fetched, ledger0, deliv, extract, created, nops, active,
                 dialogue>>

\* ---------------------------------------------------------- download_playlist

Range(q) == {q[i] : i \in 1..Len(q)}

\* outer except of download_playlist: an error message, then return
DpExcept(c) ==
  /\ outcome' = [outcome EXCEPT ![c] = "error"]
  /\ pc' = [pc EXCEPT ![c] = "dp_return"]

\* playlist = Playlist(url); playlist.video_urls
DpResolve(c) ==
  /\ pc[c] = "dp_resolve"
  /\ \/ \* no list id in the url, or the backend is unreachable
        /\ DpExcept(c)
        /\ UNCHANGED <<k, attempt>>
     \/ /\ HasListParam(url[c])
        /\ k' = [k EXCEPT ![c] = 1]
        /\ attempt' = [attempt EXCEPT ![c] = 0]
        /\ pc' = [pc EXCEPT ![c] = "dp_fetch"]
        /\ UNCHANGED outcome
  /\ UNCHANGED <<failed_downloads, disk, user_data, files, ctx, url, fmt, file_path,
                 downloaded_files, failed_videos, retryLocals, calls, fetched,
                 notices, ledger0, deliv, extract, created, save_err, nops,
                 active, dialogue>>

\* the for loop moves on to the next video, or ends
NextVideo(c) ==
  /\ k' = [k EXCEPT ![c] = @ + 1]
  /\ attempt' = [attempt EXCEPT ![c] = 0]
  /\ calls' = [calls EXCEPT ![c] = 0]
  /\ fetched' = [fetched EXCEPT ![c] = FALSE]
  /\ pc' = [pc EXCEPT ![c] = IF k[c] + 1 > Len(video_urls(url[c]))
                               THEN "dp_zip" ELSE "dp_fetch"]

\* a variant that gives a video up at its first failed attempt without
\* recording it
DpAttemptRaises_DropsVideo(c, video_url) ==
  /\ IF LastAttempt(attempt[c])
     THEN /\ failed_videos' = [failed_videos EXCEPT
                                 ![c] = Append(@, <<video_url, fmt[c]>>)]
          /\ NextVideo(c)
     ELSE /\ NextVideo(c)
          /\ UNCHANGED failed_videos
  /\ UNCHANGED <<files, downloaded_files, created>>

\* a variant in which the failure of a video's last attempt ends the whole
\* playlist download
DpAttemptRaises_AbortsBatch(c, video_url) ==
  /\ IF LastAttempt(attempt[c])
     THEN /\ failed_videos' = [failed_videos EXCEPT
                                 ![c] = Append(@, <<video_url, fmt[c]>>)]
          /\ pc' = [pc EXCEPT ![c] = "dp_return"]
          /\ UNCHANGED <<k, attempt, calls, fetched>>
     ELSE /\ attempt' = [attempt EXCEPT ![c] = @ + 1]
          /\ calls' = [calls EXCEPT ![c] = @ + 1]
          /\ UNCHANGED <<failed_videos, k, pc, fetched>>
  /\ UNCHANGED <<files, downloaded_files, created>>

\* except-branch of the inner retry loop of download_playlist
DpAttemptRaises(c, video_url) ==
  /\ IF LastAttempt(attempt[c])
     THEN /\ failed_videos' = [failed_videos EXCEPT
                                 ![c] = Append(@, <<video_url, fmt[c]>>)]
          /\ NextVideo(c)
     ELSE /\ attempt' = [attempt EXCEPT ![c] = @ + 1]
          /\ calls' = [calls EXCEPT ![c] = @ + 1]
          /\ UNCHANGED <<failed_videos, k, pc, fetched>>
  /\ UNCHANGED <<files, downloaded_files, created>>

\* a variant that leaves the loop for the archive as soon as one video is
\* downloaded
DpAttemptSucceeds_ArchivesAtOnce(c, video_url) ==
  /\ \E converted \in BOOLEAN :
       LET r == FetchResult(files, video_url, fmt[c], converted) IN
         /\ files' = r[1]
         /\ downloaded_files' = [downloaded_files EXCEPT ![c] = Append(@, r[2])]
         /\ created' = [created EXCEPT ![c] = @ \cup r[3]]
  /\ attempt' = [attempt EXCEPT ![c] = 0]
  /\ calls' = [calls EXCEPT ![c] = 0]
  /\ fetched' = [fetched EXCEPT ![c] = FALSE]
  /\ pc' = [pc EXCEPT ![c] = "dp_zip"]
  /\ UNCHANGED <<k, failed_videos>>

\* downloaded_files.append(file_path); video_download_success = True; break
DpAttemptSucceeds(c, video_url) ==
  /\ \E converted \in BOOLEAN :
       LET r == FetchResult(files, video_url, fmt[c], converted) IN
         /\ files' = r[1]
         /\ downloaded_files' = [downloaded_files EXCEPT ![c] = Append(@, r[2])]
         /\ created' = [created EXCEPT ![c] = @ \cup r[3]]
  /\ NextVideo(c)
  /\ UNCHANGED failed_videos

\* one attempt of the inner retry loop for video_urls[k]
DpFetch(c) ==
  /\ pc[c] = "dp_fetch"
  /\ \/ DpAttemptRaises(c, video_urls(url[c])[k[c]])
     \/ DpAttemptSucceeds(c, video_urls(url[c])[k[c]])
  /\ UNCHANGED <<failed_downloads, disk, user_data, ctx, url, fmt, file_path,
                 retryLocals, notices, ledger0, deliv, extract, save_err, outcome,
                 nops, active, dialogue>>

\* a variant that writes and sends the archive whether or not any video was
\* downloaded
DpZip_AlwaysArchives(c) ==
  /\ pc[c] = "dp_zip"
  /\ files' = files \cup {ZipPath(fmt[c], c)}
  /\ created' = [created EXCEPT ![c] = @ \cup {ZipPath(fmt[c], c)}]
  /\ IF Range(downloaded_files[c]) \subseteq files
     THEN /\ pc' = [pc EXCEPT ![c] = "dp_send"]
          /\ UNCHANGED outcome
     ELSE DpExcept(c)
  /\ UNCHANGED <<failed_downloads, disk, user_data, ctx, url, fmt, attempt,
                 file_path, playlistLocals, retryLocals, calls, fetched, notices,
                 ledger0, deliv, extract, save_err, nops, active, dialogue>>

\* if downloaded_files: zipfile.ZipFile(zip_path, 'w'); zipf.write(file, ...)
DpZip(c) ==
  /\ pc[c] = "dp_zip"
  /\ IF downloaded_files[c] = <<>>
     THEN /\ pc' = [pc EXCEPT ![c] = "dp_notify"]
          /\ UNCHANGED <<files, created, outcome>>
     ELSE /\ files' = files \cup {ZipPath(fmt[c], c)}
          /\ created' = [created EXCEPT ![c] = @ \cup {ZipPath(fmt[c], c)}]
          /\ IF Range(downloaded_files[c]) \subseteq files
             THEN /\ pc' = [pc EXCEPT ![c] = "dp_send"]
                  /\ UNCHANGED outcome
             ELSE DpExcept(c)
  /\ UNCHANGED <<failed_downloads, disk, user_data, ctx, url, fmt, attempt,
                 file_path, playlistLocals, retryLocals, calls, fetched, notices,
                 ledger0, deliv, extract, save_err, nops, active, dialogue>>

\* with open(zip_path, 'rb') as file: self.bot.send_document(chat_id, file)
DpSend(c) ==
  /\ pc[c] = "dp_send"
  /\ \/ \* send_document raises
        /\ deliv' = [deliv EXCEPT ![c] = "failed"]
        /\ DpExcept(c)
     \/ /\ ZipPath(fmt[c], c) \in files
        /\ deliv' = [deliv EXCEPT ![c] = "ok"]
        /\ pc' = [pc EXCEPT ![c] = "dp_cleanup"]
        /\ UNCHANGED outcome
  /\ UNCHANGED <<failed_downloads, disk, user_data, files, ctx, url, fmt, attempt,
                 file_path, playlistLocals, retryLocals, calls, fetched, notices,
                 ledger0, extract, created, save_err, nops, active, dialogue>>

\* for file in downloaded_files: os.remove(file) -- stops at the first file
\* that is gone; the result is <<files left, TRUE iff none was missing>>
RECURSIVE RemoveEach(_, _)
RemoveEach(q, fs) ==
  IF q = <<>> THEN <<fs, TRUE>>
  ELSE IF Head(q) \notin fs THEN <<fs, FALSE>>
  ELSE RemoveEach(Tail(q), fs \ {Head(q)})

\* the clean-up after the archive was sent
DpCleanup(c) ==
  /\ pc[c] = "dp_cleanup"
  /\ LET r == RemoveEach(downloaded_files[c] \o <<ZipPath(fmt[c], c)>>, files) IN
       /\ files' = r[1]
       /\ IF r[2]
          THEN /\ pc' = [pc EXCEPT ![c] = "dp_notify"]
               /\ UNCHANGED outcome
          ELSE DpExcept(c)
  /\ UNCHANGED <<failed_downloads, disk, user_data, ctx, url, fmt, attempt,
                 file_path, playlistLocals, retryLocals, calls, fetched, notices,
                 ledger0, deliv, extract, created, save_err, nops, active,
                 dialogue>>

\* if failed_videos: the itemized notice, extend the failed list, save it
DpNotify(c) ==
  /\ pc[c] = "dp_notify"
  /\ IF failed_videos[c] = <<>>
     THEN UNCHANGED <<failed_downloads, disk, save_err, notices>>
     ELSE \E ok \in BOOLEAN :
            /\ Len(failed_downloads[c]) + Len(failed_videos[c]) <= MaxLedger
            /\ notices' = [notices EXCEPT ![c] = @ + 1]
            /\ failed_downloads' =
                 [failed_downloads EXCEPT ![c] = @ \o failed_videos[c]]
            /\ SaveFailedList(c, ok)
  /\ outcome' = [outcome EXCEPT ![c] = "done"]
  /\ pc' = [pc EXCEPT ![c] = "dp_return"]
  /\ UNCHANGED <<user_data, files, ctx, url, fmt, attempt, file_path,
                 playlistLocals, retryLocals, calls, fetched, ledger0, deliv,
                 extract, created, nops, active, dialogue>>

\* the locals of a download call and its history die when the call returns
LeaveDownload(c) ==
  /\ url' = [url EXCEPT ![c] = None]
  /\ fmt' = [fmt EXCEPT ![c] = None]
  /\ attempt' = [attempt EXCEPT ![c] = 0]
  /\ file_path' = [file_path EXCEPT ![c] = <<>>]
  /\ k' = [k EXCEPT ![c] = 0]
  /\ downloaded_files' = [downloaded_files EXCEPT ![c] = <<>>]
  /\ failed_videos' = [failed_videos EXCEPT ![c] = <<>>]
  /\ calls' = [calls EXCEPT ![c] = 0]
  /\ fetched' = [fetched EXCEPT ![c] = FALSE]
  /\ notices' = [notices EXCEPT ![c] = 0]
  /\ ledger0' = [ledger0 EXCEPT ![c] = <<>>]
  /\ deliv' = [deliv EXCEPT ![c] = "none"]
  /\ extract' = [extract EXCEPT ![c] = "none"]
  /\ created' = [created EXCEPT ![c] = {}]
  /\ save_err' = [save_err EXCEPT ![c] = FALSE]
  /\ outcome' = [outcome EXCEPT ![c] = "none"]

\* download_video / download_playlist returns to the handler that called it
DownloadReturn(c) ==
  /\ pc[c] \in {"dv_return", "dp_return"}
  /\ LeaveDownload(c)
  /\ IF ctx[c] \in {"retry_all", "retry_sel"}
     THEN /\ pc' = [pc EXCEPT ![c] = IF ctx[c] = "retry_all"
                                    THEN "ra_loop" ELSE "rs_loop"]
          /\ pos' = [pos EXCEPT ![c] = @ + 1]
          /\ retried' = [retried EXCEPT
                           ![c] = Append(@, <<<<url[c], fmt[c]>>, outcome[c]>>)]
          /\ UNCHANGED <<ctx, message_text>>
     ELSE /\ pc' = [pc EXCEPT ![c] = "idle"]
          /\ ctx' = [ctx EXCEPT ![c] = "none"]
          /\ message_text' = [message_text EXCEPT ![c] = <<>>]
          /\ UNCHANGED <<pos, retried>>
  /\ UNCHANGED <<failed_downloads, disk, user_data, files, sel, list0, reply, nops,
                 active>>

\* --------------------------------------------------------------- /retry

downloadLocals == <<url, fmt, attempt, file_path, playlistLocals, calls, fetched,
                    notices, ledger0, deliv, extract, created, save_err, outcome>>

\* handle_retry: nothing to retry, or show the list and the three options
HandleRetry(c) ==
  /\ c \in active
  /\ pc[c] = "idle"
  /\ nops < MaxOps
  /\ nops' = nops + 1
  /\ IF failed_downloads[c] = <<>>
     THEN UNCHANGED <<pc, ctx>>
     ELSE /\ pc' = [pc EXCEPT ![c] = "await_retry_choice"]
          /\ ctx' = [ctx EXCEPT ![c] = "retry"]
  /\ message_text' = [message_text EXCEPT ![c] = <<>>]
  /\ reply' = [reply EXCEPT ![c] = "none"]
  /\ UNCHANGED <<failed_downloads, disk, user_data, files, downloadLocals,
                 retryLocals, active>>

\* process_retry_selection
ProcessRetrySelection(c, selection) ==
  /\ pc[c] = "await_retry_choice"
  /\ CASE selection = "Tentar Todos" ->
            /\ pc' = [pc EXCEPT ![c] = "ra_loop"]
            /\ ctx' = [ctx EXCEPT ![c] = "retry_all"]
            /\ pos' = [pos EXCEPT ![c] = 1]
            /\ list0' = [list0 EXCEPT ![c] = failed_downloads[c]]
       [] selection = "Selecionar Específicos" ->
            /\ pc' = [pc EXCEPT ![c] = "await_indices"]
            /\ UNCHANGED <<ctx, pos, list0>>
       [] OTHER ->
            /\ pc' = [pc EXCEPT ![c] = "idle"]
            /\ ctx' = [ctx EXCEPT ![c] = "none"]
            /\ UNCHANGED <<pos, list0>>
  /\ UNCHANGED <<failed_downloads, disk, user_data, files, downloadLocals, sel,
                 retried, nops, active, dialogue>>

\* for url, format_choice in failed_list: ...   (failed_list is the very list
\* that download_video and download_playlist append to), then
\* self.failed_downloads[str(chat_id)] = []
RetryAllLoop(c) ==
  /\ pc[c] = "ra_loop"
  /\ IF pos[c] <= Len(failed_downloads[c])
     THEN LET entry == failed_downloads[c][pos[c]] IN
            /\ EnterDownload(c, entry[1], entry[2])
            /\ DispatchByListParam(c, entry[1])
            /\ UNCHANGED failed_downloads
     ELSE /\ failed_downloads' = [failed_downloads EXCEPT ![c] = <<>>]
          /\ pc' = [pc EXCEPT ![c] = "ra_return"]
          /\ UNCHANGED downloadLocals
  /\ UNCHANGED <<disk, user_data, files, ctx, retryLocals, nops, active, dialogue>>

\* selected_indices = [int(x.strip()) - 1 for x in selection.split(',')]
SelectedIndices(tokens) == [i \in 1..Len(tokens) |-> ParseInt(tokens[i]) - 1]

\* a variant that drops the tokens that are no integers and retries the rest
ProcessSpecificRetry_SkipsBadTokens(c, tokens) ==
  /\ pc[c] = "await_indices"
  /\ message_text' = [message_text EXCEPT ![c] = tokens]
  /\ pc' = [pc EXCEPT ![c] = "rs_loop"]
  /\ ctx' = [ctx EXCEPT ![c] = "retry_sel"]
  /\ sel' = [sel EXCEPT ![c] = SelectedIndices(SelectSeq(tokens, IsInt))]
  /\ pos' = [pos EXCEPT ![c] = 1]
  /\ list0' = [list0 EXCEPT ![c] = failed_downloads[c]]
  /\ UNCHANGED <<failed_downloads, disk, user_data, files, downloadLocals,
                 retried, reply, nops, active>>

\* process_specific_retry, up to the loop
ProcessSpecificRetry(c, tokens) ==
  /\ pc[c] = "await_indices"
  /\ message_text' = [message_text EXCEPT ![c] = tokens]
  /\ IF \E i \in 1..Len(tokens) : ~IsInt(tokens[i])
     THEN \* ValueError: "Erro no retry: ..."
          /\ pc' = [pc EXCEPT ![c] = "idle"]
          /\ ctx' = [ctx EXCEPT ![c] = "none"]
          /\ reply' = [reply EXCEPT ![c] = "Erro no retry"]
          /\ UNCHANGED <<pos, sel, list0>>
     ELSE /\ pc' = [pc EXCEPT ![c] = "rs_loop"]
          /\ ctx' = [ctx EXCEPT ![c] = "retry_sel"]
          /\ sel' = [sel EXCEPT ![c] = SelectedIndices(tokens)]
          /\ pos' = [pos EXCEPT ![c] = 1]
          /\ list0' = [list0 EXCEPT ![c] = failed_downloads[c]]
          /\ UNCHANGED reply
  /\ UNCHANGED <<failed_downloads, disk, user_data, files, downloadLocals,
                 retried, nops, active>>

\* 'playlist' in url decides in process_specific_retry
DispatchByPlaylistWord(c, u) ==
  pc' = [pc EXCEPT ![c] = IF HasPlaylistWord(u) THEN "dp_resolve" ELSE "dv_fetch"]

\* [item for idx, item in enumerate(failed_list) if idx not in selected_indices]
RECURSIVE KeepUnselected(_, _, _)
KeepUnselected(list, idx, indices) ==
  IF list = <<>> THEN <<>>
  ELSE (IF idx \in Range(indices) THEN <<>> ELSE <<Head(list)>>)
         \o KeepUnselected(Tail(list), idx + 1, indices)

\* for idx in selected_indices: ...; then the filter and "Retry concluído."
RetrySelLoop(c) ==
  /\ pc[c] = "rs_loop"
  /\ IF pos[c] <= Len(sel[c])
     THEN LET idx == sel[c][pos[c]] IN
            IF 0 <= idx /\ idx < Len(failed_downloads[c])
            THEN LET entry == failed_downloads[c][idx + 1] IN
                   /\ EnterDownload(c, entry[1], entry[2])
                   /\ DispatchByPlaylistWord(c, entry[1])
                   /\ UNCHANGED <<failed_downloads, pos>>
            ELSE /\ pos' = [pos EXCEPT ![c] = @ + 1]
                 /\ UNCHANGED <<failed_downloads, pc, downloadLocals>>
     ELSE /\ failed_downloads' =
               [failed_downloads EXCEPT ![c] = KeepUnselected(@, 0, sel[c])]
          /\ pc' = [pc EXCEPT ![c] = "rs_return"]
          /\ UNCHANGED <<pos, downloadLocals>>
  /\ UNCHANGED <<disk, user_data, files, ctx, sel, list0, retried, nops, active,
                 dialogue>>

\* the retry handler returns
RetryReturn(c) ==
  /\ pc[c] \in {"ra_return", "rs_return"}
  /\ pc' = [pc EXCEPT ![c] = "idle"]
  /\ ctx' = [ctx EXCEPT ![c] = "none"]
  /\ pos' = [pos EXCEPT ![c] = 0]
  /\ sel' = [sel EXCEPT ![c] = <<>>]
  /\ list0' = [list0 EXCEPT ![c] = <<>>]
  /\ retried' = [retried EXCEPT ![c] = <<>>]
  /\ message_text' = [message_text EXCEPT ![c] = <<>>]
  /\ UNCHANGED <<failed_downloads, disk, user_data, files, downloadLocals, reply,
                 nops, active>>

\* ------------------------------------------------------------ process restart

\* main() again: YouTubeDownloader.__init__ starts from an empty dict and an
\* empty session map; the files on disk stay as they are
Restart ==
  /\ nops < MaxOps
  /\ nops' = nops + 1
  /\ failed_downloads' = [c \in Chats |-> <<>>]
  /\ user_data' = [c \in Chats |-> None]
  /\ pc' = [c \in Chats |-> "idle"]
  /\ ctx' = [c \in Chats |-> "none"]
  /\ url' = [c \in Chats |-> None]
  /\ fmt' = [c \in Chats |-> None]
  /\ attempt' = [c \in Chats |-> 0]
  /\ file_path' = [c \in Chats |-> <<>>]
  /\ k' = [c \in Chats |-> 0]
  /\ downloaded_files' = [c \in Chats |-> <<>>]
  /\ failed_videos' = [c \in Chats |-> <<>>]
  /\ pos' = [c \in Chats |-> 0]
  /\ sel' = [c \in Chats |-> <<>>]
  /\ list0' = [c \in Chats |-> <<>>]
  /\ retried' = [c \in Chats |-> <<>>]
  /\ calls' = [c \in Chats |-> 0]
  /\ fetched' = [c \in Chats |-> FALSE]
  /\ notices' = [c \in Chats |-> 0]
  /\ ledger0' = [c \in Chats |-> <<>>]
  /\ deliv' = [c \in Chats |-> "none"]
  /\ extract' = [c \in Chats |-> "none"]
  /\ created' = [c \in Chats |-> {}]
  /\ save_err' = [c \in Chats |-> FALSE]
  /\ outcome' = [c \in Chats |-> "none"]
  /\ message_text' = [c \in Chats |-> <<>>]
  /\ reply' = [c \in Chats |-> "none"]
  /\ UNCHANGED <<disk, files, active>>

Next ==
  \/ \E c \in Chats :
       \/ \E u \in URLs : HandleUrl(c, u)
       \/ \E t \in FormatReplies : ProcessFormatSelection(c, t)
       \/ DvFetch(c)
       \/ DvSend(c)
       \/ DvRemove(c)
       \/ DpResolve(c)
       \/ DpFetch(c)
       \/ DpZip(c)
       \/ DpSend(c)
       \/ DpCleanup(c)
       \/ DpNotify(c)
       \/ DownloadReturn(c)
       \/ HandleRetry(c)
       \/ \E s \in RetryReplies : ProcessRetrySelection(c, s)
       \/ RetryAllLoop(c)
       \/ \E t \in Selections : ProcessSpecificRetry(c, t)
       \/ RetrySelLoop(c)
       \/ RetryReturn(c)
  \/ Restart

Spec == Init /\ [][Next]_vars

\* the same bot with every chat talking to it: telebot runs the handlers of
\* different chats on its worker threads
ConcInit ==
  /\ failed_downloads = [c \in Chats |-> <<>>]
  /\ disk = [c \in Chats |-> NoFile]
  /\ user_data = [c \in Chats |-> None]
  /\ files = {}
  /\ pc = [c \in Chats |-> "idle"]
  /\ ctx = [c \in Chats |-> "none"]
  /\ url = [c \in Chats |-> None]
  /\ fmt = [c \in Chats |-> None]
  /\ attempt = [c \in Chats |-> 0]
  /\ file_path = [c \in Chats |-> <<>>]
  /\ k = [c \in Chats |-> 0]
  /\ downloaded_files = [c \in Chats |-> <<>>]
  /\ failed_videos = [c \in Chats |-> <<>>]
  /\ pos = [c \in Chats |-> 0]
  /\ sel = [c \in Chats |-> <<>>]
  /\ list0 = [c \in Chats |-> <<>>]
  /\ retried = [c \in Chats |-> <<>>]
  /\ calls = [c \in Chats |-> 0]
  /\ fetched = [c \in Chats |-> FALSE]
  /\ notices = [c \in Chats |-> 0]
  /\ ledger0 = [c \in Chats |-> <<>>]
  /\ deliv = [c \in Chats |-> "none"]
  /\ extract = [c \in Chats |-> "none"]
  /\ created = [c \in Chats |-> {}]
  /\ save_err = [c \in Chats |-> FALSE]
  /\ outcome = [c \in Chats |-> "none"]
  /\ message_text = [c \in Chats |-> <<>>]
  /\ reply = [c \in Chats |-> "none"]
  /\ nops = 0
  /\ active = Chats

ConcSpec == ConcInit /\ [][Next]_vars

\* ================================================================ properties

DvStates == {"dv_fetch", "dv_send", "dv_remove", "dv_return"}

\* the durable record read as a list (no file: nothing recorded)
DiskList(c) == IF disk[c] = NoFile THEN <<>> ELSE disk[c]

\* the entries of a retry loop's history whose download ended with `how`
RECURSIVE EntriesEnded(_, _)
EntriesEnded(h, how) ==
  IF h = <<>> THEN <<>>
  ELSE (IF Head(h)[2] = how THEN <<Head(h)[1]>> ELSE <<>>)
         \o EntriesEnded(Tail(h), how)

\* C1: for every single download and every playlist item, the fetch(+extract)
\* is invoked at most max_retries times, and once an attempt's fetch has
\* succeeded no further fetch is started for that item.
C1_AtMostNFetchesNoneAfterSuccess ==
  \A c \in Chats :
    pc[c] \in {"dv_fetch", "dp_fetch"} =>
      /\ calls[c] < max_retries
      /\ ~fetched[c]

\* C2: a single download whose fetch fails on all attempts appends exactly
\* one entry (url, format) at the end of the chat's list and sends exactly
\* one failure notice; nothing is appended or notified before the last
\* attempt has failed.
C2_SingleFailureAppendsOnce ==
  \A c \in Chats :
    /\ pc[c] \in {"dv_fetch", "dv_send", "dv_remove"} =>
         /\ failed_downloads[c] = ledger0[c]
         /\ notices[c] = 0
    /\ (pc[c] = "dv_return" /\ ~fetched[c]) =>
         /\ calls[c] = max_retries
         /\ outcome[c] = "failed"
         /\ failed_downloads[c] = Append(ledger0[c], <<url[c], fmt[c]>>)
         /\ notices[c] = 1

\* C2 witness: all attempts of a single download failed and its entry was
\* appended behind an entry that was already there
C2_Witness ==
  \E c \in Chats :
    /\ pc[c] = "dv_return"
    /\ ~fetched[c]
    /\ calls[c] = max_retries
    /\ ledger0[c] # <<>>
    /\ failed_downloads[c] = Append(ledger0[c], <<url[c], fmt[c]>>)

\* C3: a retry-all makes one pass over the entries that were in the list
\* when it was chosen, completes, and leaves exactly the entries whose
\* retry failed again.
C3_RetryAllLeavesStillFailing ==
  \A c \in Chats :
    ctx[c] = "retry_all" =>
      /\ pc[c] = "ra_return" =>
           failed_downloads[c] = EntriesEnded(retried[c], "failed")
      /\ pc[c] \notin {"ra_loop", "ra_return"} => pos[c] <= Len(list0[c])

\* C4: a restart presents, for every chat, the list the process held before
\* it stopped.
C4_RestartKeepsLedger ==
  [][Restart => failed_downloads' = failed_downloads]_vars

\* C5: every step that changes a chat's list (append, extend, clear by
\* retry-all, removal by retry-selected; a restart is no mutation) leaves
\* the durable record equal to the list in memory, unless the write of that
\* step failed.
C5_DurableMirrorsMemory ==
  [][\A c \in Chats :
       ( /\ failed_downloads'[c] # failed_downloads[c]
         /\ ~Restart
         /\ ~save_err'[c] )
       => (IF disk'[c] = NoFile THEN <<>> ELSE disk'[c]) = failed_downloads'[c]]_vars

\* C6: after send_document failed for a fetched single item there is no
\* further fetch attempt, no failure notice, no entry appended, and the
\* download does not end as failed.
C6_DeliveryFailureIsNotDownloadFailure ==
  \A c \in Chats :
    (pc[c] \in DvStates /\ deliv[c] = "failed") =>
      /\ pc[c] # "dv_fetch"
      /\ notices[c] = 0
      /\ failed_downloads[c] = ledger0[c]
      /\ outcome[c] # "failed"

\* C7: when download_playlist returns with a non-empty failure sequence, the
\* chat's list is its previous content followed by the failed (video, format)
\* pairs in input order, and it is on disk unless the write failed.
C7_BatchFailuresRecorded ==
  \A c \in Chats :
    (pc[c] = "dp_return" /\ failed_videos[c] # <<>>) =>
      /\ failed_downloads[c] = ledger0[c] \o failed_videos[c]
      /\ ~save_err[c] => DiskList(c) = failed_downloads[c]

\* the videos behind a sequence of downloaded paths / of failed pairs
VideosOfPaths(q) == {q[i][2] : i \in 1..Len(q)}
VideosOfPairs(q) == {q[i][1] : i \in 1..Len(q)}

\* C8: once all videos of a playlist are processed, every video is in exactly
\* one of downloaded_files and failed_videos, and the two lengths add up to
\* the number of videos (while the loop runs: to the number processed).
C8_EveryItemResolvedOnce ==
  \A c \in Chats :
    /\ pc[c] = "dp_fetch" =>
         Len(downloaded_files[c]) + Len(failed_videos[c]) = k[c] - 1
    /\ ( \/ pc[c] \in {"dp_zip", "dp_send", "dp_cleanup", "dp_notify"}
         \/ pc[c] = "dp_return" /\ k[c] > 0 ) =>
         /\ Len(downloaded_files[c]) + Len(failed_videos[c])
              = Len(video_urls(url[c]))
         /\ VideosOfPaths(downloaded_files[c]) \cup VideosOfPairs(failed_videos[c])
              = Range(video_urls(url[c]))
         /\ VideosOfPaths(downloaded_files[c]) \cap VideosOfPairs(failed_videos[c])
              = {}

\* C8 witness: a playlist is through its loop with one video downloaded and
\* one failed
C8_Witness ==
  \E c \in Chats :
    /\ pc[c] = "dp_zip"
    /\ downloaded_files[c] # <<>>
    /\ failed_videos[c] # <<>>

\* C9: when download_video or download_playlist returns, none of the files
\* it wrote is left on local storage.
C9_NoArtifactLeftBehind ==
  \A c \in Chats :
    pc[c] \in {"dv_return", "dp_return"} => created[c] \cap files = {}

\* C10: when a retry handler completes, no (url, format) whose retried
\* download was delivered is in the chat's list.
C10_DeliveredRetryLeavesLedger ==
  \A c \in Chats :
    pc[c] \in {"ra_return", "rs_return"} =>
      Range(EntriesEnded(retried[c], "delivered"))
        \cap Range(failed_downloads[c]) = {}

\* the 0-based indices of a selection that point into a list of length n
InRange(indices, n) == SelectSeq(indices, LAMBDA i : 0 <= i /\ i < n)

\* C11: in retry-selected a 1-based index outside 1..length of the list that
\* was displayed is ignored: no download is started for it, and the final
\* removal takes out only the positions selected by in-range indices.
C11_OutOfRangeIndexIgnored ==
  [][\A c \in Chats :
       /\ ( /\ pc[c] = "rs_loop"
            /\ pc'[c] \in {"dv_fetch", "dp_resolve"} )
          => ( /\ 0 <= sel[c][pos[c]]
               /\ sel[c][pos[c]] < Len(list0[c]) )
       /\ ( /\ pc[c] = "rs_loop"
            /\ pc'[c] = "rs_return" )
          => failed_downloads'[c] =
               KeepUnselected(failed_downloads[c], 0,
                              InRange(sel[c], Len(list0[c])))]_vars

\* no (url, format) is listed twice
NoDuplicates(list) ==
  \A i, j \in 1..Len(list) : list[i] = list[j] => i = j

\* C12: in every reachable state no chat's list holds the same (url, format)
\* twice.
C12_LedgerHasNoDuplicates ==
  \A c \in Chats : NoDuplicates(failed_downloads[c])

\* C13: when the fetch of an MP3 request succeeded and convert_to_mp3 failed,
\* download_video goes on to deliver the original video file, which is on
\* disk; unless a send_document failed, it records nothing, sends no failure
\* notice, starts no further fetch, and returns with the file delivered.
C13_ExtractionFailureStillDelivers ==
  \A c \in Chats :
    (pc[c] \in DvStates /\ extract[c] = "failed") =>
      /\ fmt[c] = "MP3"
      /\ file_path[c] = DownloadPath(url[c])
      /\ pc[c] = "dv_send" => file_path[c] \in files
      /\ deliv[c] # "failed" =>
           /\ pc[c] # "dv_fetch"
           /\ failed_downloads[c] = ledger0[c]
           /\ notices[c] = 0
           /\ pc[c] = "dv_return" => outcome[c] = "delivered"

\* C13 witness: an MP3 download whose conversion failed returns after it
\* delivered and removed the video file
C13_Witness ==
  \E c \in Chats :
    /\ pc[c] = "dv_return"
    /\ extract[c] = "failed"
    /\ outcome[c] = "delivered"
    /\ deliv[c] = "ok"
    /\ file_path[c] = DownloadPath(url[c])
    /\ file_path[c] \notin files

DpStates == {"dp_resolve", "dp_fetch", "dp_zip", "dp_send", "dp_cleanup",
             "dp_notify", "dp_return"}

\* the archives among a set of paths
Archives(paths) == {p \in paths : p[1] = "playlist_zip"}

\* C14: a playlist download with no downloaded file writes no archive and
\* sends no file; an archive is written only after the loop, when at least
\* one video was downloaded, and never more than one per call.
C14_NoArchiveWithoutSuccess ==
  \A c \in Chats :
    pc[c] \in DpStates =>
      /\ downloaded_files[c] = <<>> =>
           /\ Archives(created[c]) = {}
           /\ deliv[c] = "none"
      /\ Archives(created[c]) # {} =>
           /\ downloaded_files[c] # <<>>
           /\ pc[c] \in {"dp_send", "dp_cleanup", "dp_notify", "dp_return"}
           /\ Archives(created[c]) = {ZipPath(fmt[c], c)}
      /\ deliv[c] # "none" => Archives(created[c]) # {}

\* C14 witness: a playlist download returns after every video failed
C14_Witness ==
  \E c \in Chats :
    /\ pc[c] = "dp_return"
    /\ outcome[c] = "done"
    /\ downloaded_files[c] = <<>>
    /\ Len(failed_videos[c]) = Len(video_urls(url[c]))
    /\ failed_videos[c] # <<>>
    /\ Archives(files) = {}

\* the (video, format) pairs of the videos of q that are not among `done`
RECURSIVE PairsNotIn(_, _, _)
PairsNotIn(q, done, f) ==
  IF q = <<>> THEN <<>>
  ELSE (IF Head(q) \in done THEN <<>> ELSE <<<<Head(q), f>>>>)
         \o PairsNotIn(Tail(q), done, f)

\* C15: once a playlist is resolved, its loop stands at a video of the
\* playlist until all videos have been visited in order, whatever the
\* outcome of the earlier ones: the videos visited so far are the first k-1,
\* those that exhausted their attempts are listed in playlist order, and the
\* call goes on to the archive, or returns, only after the last video.
C15_FailedItemDoesNotStopBatch ==
  \A c \in Chats :
    (pc[c] \in DpStates /\ k[c] > 0) =>
      LET vids == video_urls(url[c])
          seen == SubSeq(vids, 1, k[c] - 1)
      IN /\ pc[c] = "dp_fetch" <=> k[c] <= Len(vids)
         /\ pc[c] # "dp_fetch" => k[c] = Len(vids) + 1
         /\ VideosOfPaths(downloaded_files[c]) \cup VideosOfPairs(failed_videos[c])
              = Range(seen)
         /\ failed_videos[c]
              = PairsNotIn(seen, VideosOfPaths(downloaded_files[c]), fmt[c])

\* C15 witness: the first video exhausted its attempts and the second one is
\* in its retry loop
C15_Witness ==
  \E c \in Chats :
    /\ pc[c] = "dp_fetch"
    /\ k[c] = 2
    /\ calls[c] = 1
    /\ failed_videos[c] = <<<<video_urls(url[c])[1], fmt[c]>>>>

DownloadStates == DvStates \cup DpStates

\* C16: while download calls of two chats are running, the local paths they
\* have written (downloaded files, converted files, archives) are disjoint,
\* so neither delivers or deletes a file of the other.
C16_ConcurrentPathsDistinct ==
  \A c, d \in Chats :
    (c # d /\ pc[c] \in DownloadStates /\ pc[d] \in DownloadStates) =>
      created[c] \cap created[d] = {}

\* what belongs to chat a's own conversation and running handler
Own(a) ==
  <<pc[a], ctx[a], user_data[a], url[a], fmt[a], attempt[a], file_path[a], k[a],
    downloaded_files[a], failed_videos[a], pos[a], sel[a], calls[a], deliv[a],
    outcome[a]>>

AbortsWith(c, text) ==
  /\ pc'[c] = "idle"
  /\ reply'[c] = text
  /\ url'[c] = None
  /\ calls'[c] = 0
  /\ failed_downloads'[c] = failed_downloads[c]
  /\ disk'[c] = disk[c]
  /\ files' = files

\* C18: a reply to the format question that is neither MP3 nor MP4 (in any
\* letter case), and a reply to the index question with a token that is no
\* integer, are answered with an error text and end the handler without a
\* download and without a change to the chat's list, record or files.
C18_InvalidInputAborts ==
  [][\A c \in Chats :
       /\ ( /\ pc[c] = "await_format"
            /\ pc'[c] # "await_format"
            /\ ~Restart
            /\ user_data[c] # None
            /\ Upper(message_text'[c][1]) \notin Formats )
          => AbortsWith(c, "Formato inválido. Escolha MP3 ou MP4.")
       /\ ( /\ pc[c] = "await_indices"
            /\ pc'[c] # "await_indices"
            /\ ~Restart
            /\ \E i \in 1..Len(message_text'[c]) : ~IsInt(message_text'[c][i]) )
          => AbortsWith(c, "Erro no retry")]_vars

\* C18 witness: a selection with a token that is no integer was answered with
\* the error text, and the chat's list is as it was shown
C18_Witness ==
  \E c \in Chats :
    /\ pc[c] = "idle"
    /\ reply[c] = "Erro no retry"
    /\ \E i \in 1..Len(message_text[c]) : IsInt(message_text[c][i])
    /\ \E i \in 1..Len(message_text[c]) : ~IsInt(message_text[c][i])
    /\ failed_downloads[c] # <<>>
    /\ disk[c] = failed_downloads[c]

\* C19: when the write of the failed list fails, the download call still ends
\* the way it ends after a good write (the notice sent, the call returned
\* normally), and the list in memory holds what was just appended or
\* extended.
C19_WriteFailureKeepsMemory ==
  \A c \in Chats :
    save_err[c] =>
      /\ pc[c] \in {"dv_return", "dp_return"}
      /\ notices[c] = 1
      /\ pc[c] = "dv_return" =>
           /\ outcome[c] = "failed"
           /\ failed_downloads[c] = Append(ledger0[c], <<url[c], fmt[c]>>)
      /\ pc[c] = "dp_return" =>
           /\ outcome[c] = "done"
           /\ failed_videos[c] # <<>>
           /\ failed_downloads[c] = ledger0[c] \o failed_videos[c]

\* C19 witness: the first failed download of a chat could not be written: no
\* record exists, and the entry is in the list
C19_Witness ==
  \E c \in Chats :
    /\ pc[c] = "dv_return"
    /\ save_err[c]
    /\ disk[c] = NoFile
    /\ failed_downloads[c] = <<<<url[c], fmt[c]>>>>

\* C20: whichever handler starts a download for a URL (format selection,
\* retry-all, retry-selected), the URL goes to download_playlist exactly when
\* the format selection would send it there.
C20_OneCollectionPredicate ==
  \A c \in Chats :
    pc[c] \in DownloadStates =>
      (pc[c] \in DpStates <=> HasListParam(url[c]))

\* C21: when download_playlist stands before the archive step, and from then
\* on while the archive exists, every video of the playlist has been
\* resolved (downloaded, or failed on its last attempt), no attempt is in
\* flight, and the loop is past the last video; while the loop runs no
\* archive has been written by the call.
C21_ArchiveAfterAllResolved ==
  \A c \in Chats :
    /\ ( \/ pc[c] \in {"dp_zip", "dp_send", "dp_cleanup"}
         \/ pc[c] \in DpStates /\ Archives(created[c]) # {} ) =>
         /\ k[c] = Len(video_urls(url[c])) + 1
         /\ attempt[c] = 0 /\ calls[c] = 0
         /\ \A i \in 1..Len(video_urls(url[c])) :
              LET v == video_urls(url[c])[i] IN
                (v \in VideosOfPaths(downloaded_files[c]))
                  # (v \in VideosOfPairs(failed_videos[c]))
    /\ pc[c] \in {"dp_resolve", "dp_fetch"} => Archives(created[c]) = {}

\* C21 witness: the archive of a playlist with one failed and one downloaded
\* video has been written and is about to be sent
C21_Witness ==
  \E c \in Chats :
    /\ pc[c] = "dp_send"
    /\ ZipPath(fmt[c], c) \in created[c] \cap files
    /\ Len(downloaded_files[c]) = 1
    /\ Len(failed_videos[c]) = 1

\* the entries of a retry loop's history, whatever their outcome
EntriesRetried(h) == [i \in 1..Len(h) |-> h[i][1]]

\* C22: a retry-all starts one download per entry that was in the list when
\* "Tentar Todos" was chosen, in list order, and none for an entry appended
\* while it runs; when it completes, the downloads it made are exactly those
\* entries.
C22_RetryAllOnePassOverSnapshot ==
  \A c \in Chats :
    ctx[c] = "retry_all" =>
      /\ Len(retried[c]) <= Len(list0[c])
      /\ pc[c] \in DownloadStates =>
           /\ pos[c] <= Len(list0[c])
           /\ <<url[c], fmt[c]>> = list0[c][pos[c]]
      /\ pc[c] = "ra_return" => EntriesRetried(retried[c]) = list0[c]

\* C23: when a retry-selected completes, every entry whose retried download
\* ended failed (and was not delivered by another retry of the same
\* operation) is in the chat's list, and the entries of the displayed list
\* that were not selected stand at the front of the list in their order.
C23_RetrySelectedKeepsFailedAndUnselected ==
  \A c \in Chats :
    pc[c] = "rs_return" =>
      LET unselected == KeepUnselected(list0[c], 0, sel[c]) IN
        /\ (Range(EntriesEnded(retried[c], "failed"))
              \ Range(EntriesEnded(retried[c], "delivered")))
             \subseteq Range(failed_downloads[c])
        /\ Len(unselected) <= Len(failed_downloads[c])
        /\ SubSeq(failed_downloads[c], 1, Len(unselected)) = unselected

====
